---- MODULE Spec2Model ----
(***************************************************************************)
(* Model of internal/pcap/layer.go of ikago: the layer factory             *)
(* (createNetworkLayerIPv4 / createNetworkLayerIPv6), the ICMPv4 parser    *)
(* (parseICMPv4Layer), the accessors of icmpv4Indicator and the NAT        *)
(* endpoint resolution (natSrc / natDst).                                  *)
(*                                                                         *)
(* Every call ends in an outcome record [kind, err, val]:                  *)
(*   kind = "ok"     the function returned val (and a nil error, if any)   *)
(*   kind = "error"  the function returned a non-nil error value           *)
(*   kind = "panic"  the function panicked (panic(...) or a run-time       *)
(*                   nil-pointer dereference)                              *)
(* err classifies the failure by the message the code builds.              *)
(***************************************************************************)
EXTENDS Integers, Sequences, FiniteSets, TLC

VARIABLES args, indicator, transportLayer, op, ret

vars == <<args, indicator, transportLayer, op, ret>>

Nil == [nil |-> TRUE]

----------------------------------------------------------------------------
(* Outcomes *)

Ok(v) == [kind |-> "ok", err |-> "none", val |-> v]

Err(e) == [kind |-> "error", err |-> e, val |-> Nil]

Panic(e) == [kind |-> "panic", err |-> e, val |-> Nil]

----------------------------------------------------------------------------
(* gopacket constants used by layer.go *)

ICMPv4TypeEchoReply == 0
ICMPv4TypeDestinationUnreachable == 3
ICMPv4TypeSourceQuench == 4
ICMPv4TypeRedirect == 5
ICMPv4TypeEchoRequest == 8
ICMPv4TypeRouterAdvertisement == 9
ICMPv4TypeRouterSolicitation == 10
ICMPv4TypeTimeExceeded == 11
ICMPv4TypeParameterProblem == 12
ICMPv4TypeTimestampRequest == 13
ICMPv4TypeTimestampReply == 14
ICMPv4TypeInfoRequest == 15
ICMPv4TypeInfoReply == 16
ICMPv4TypeAddressMaskRequest == 17
ICMPv4TypeAddressMaskReply == 18

IPProtocolICMPv4 == 1
IPProtocolTCP == 6
IPProtocolUDP == 17
IPv4DontFragment == 2

\* uint8 and uint16 ranges of the Go fields
MaxUint8 == 255
MaxUint16 == 65535

----------------------------------------------------------------------------
(* net.IP: a byte sequence, the nil IP being the empty one; To4 as the Go  *)
(* standard library computes it (nil when there is no 4-byte form)         *)

IPv4len == 4
IPv6len == 16

IsZeros(s) == \A i \in 1..Len(s) : s[i] = 0

To4(ip) ==
    IF Len(ip) = IPv4len THEN ip
    ELSE IF /\ Len(ip) = IPv6len
            /\ IsZeros(SubSeq(ip, 1, 10))
            /\ ip[11] = 255
            /\ ip[12] = 255
         THEN SubSeq(ip, 13, 16)
         ELSE << >>

----------------------------------------------------------------------------
(* Transport layer constructors *)

createTransportLayerTCP(srcPort, dstPort, seq, ack) ==
    [type |-> "TCP", SrcPort |-> srcPort, DstPort |-> dstPort, Seq |-> seq,
     Ack |-> ack, DataOffset |-> 5, SYN |-> FALSE, PSH |-> TRUE, ACK |-> TRUE,
     Window |-> 65535, pseudoheader |-> Nil]

createTCPLayerSYN(srcPort, dstPort, seq) ==
    [type |-> "TCP", SrcPort |-> srcPort, DstPort |-> dstPort, Seq |-> seq,
     Ack |-> 0, DataOffset |-> 5, SYN |-> TRUE, PSH |-> FALSE, ACK |-> FALSE,
     Window |-> 65535, pseudoheader |-> Nil]

createTransportLayerUDP(srcPort, dstPort) ==
    [type |-> "UDP", SrcPort |-> srcPort, DstPort |-> dstPort,
     pseudoheader |-> Nil]

\* a gopacket.TransportLayer that is neither *layers.TCP nor *layers.UDP
OtherTransportLayer(t) == [type |-> t, pseudoheader |-> Nil]

\* tcpipchecksum.SetNetworkLayerForChecksum with an *layers.IPv4 argument
SetNetworkLayerForChecksum(l, ipv4Layer) ==
    [l EXCEPT !.pseudoheader = ipv4Layer]

----------------------------------------------------------------------------
(* createNetworkLayerIPv4: the outcome, and the transport layer after it *)

NewIPv4Layer(srcIP, dstIP, id, ttl, protocol) ==
    [Version |-> 4, IHL |-> 5, Id |-> id, Flags |-> IPv4DontFragment,
     TTL |-> ttl, Protocol |-> protocol, SrcIP |-> srcIP, DstIP |-> dstIP]

\* variant: only the source address is checked
IPv4SourceCheckOnly(srcIP, dstIP) == To4(srcIP) = << >>

IPv4AddressCheckFails(srcIP, dstIP) == To4(srcIP) = << >> \/ To4(dstIP) = << >>

createNetworkLayerIPv4(srcIP, dstIP, id, ttl, tl) ==
    IF IPv4AddressCheckFails(srcIP, dstIP) THEN Err("InvalidAddress")
    ELSE IF tl = Nil THEN Panic("NilDereference")
    ELSE IF tl.type = "TCP"
         THEN Ok(NewIPv4Layer(srcIP, dstIP, id, ttl, IPProtocolTCP))
    ELSE IF tl.type = "UDP"
         THEN Ok(NewIPv4Layer(srcIP, dstIP, id, ttl, IPProtocolUDP))
    ELSE Err("UnsupportedLayer")

TransportAfterIPv4(srcIP, dstIP, id, ttl, tl) ==
    LET r == createNetworkLayerIPv4(srcIP, dstIP, id, ttl, tl)
    IN  IF r.kind = "ok" THEN SetNetworkLayerForChecksum(tl, r.val) ELSE tl

(* createNetworkLayerIPv6 *)

\* variant: only the source address is checked
IPv6SourceCheckOnly(srcIP, dstIP) == To4(srcIP) # << >>

IPv6AddressCheckFails(srcIP, dstIP) == To4(srcIP) # << >> \/ To4(dstIP) # << >>

createNetworkLayerIPv6(srcIP, dstIP, tl) ==
    IF IPv6AddressCheckFails(srcIP, dstIP) THEN Err("InvalidAddress")
    ELSE Err("Unsupported")

----------------------------------------------------------------------------
(* Wire encodings (RFC 791, 793, 768, 792) of the packets an ICMPv4 error  *)
(* embeds; they build the byte payloads handed to parseICMPv4Layer         *)

Bytes16(n) == << n \div 256, n % 256 >>

Bytes32(n) == Bytes16(n \div 65536) \o Bytes16(n % 65536)

U16(data, i) == data[i] * 256 + data[i + 1]

WireIPv4(version, ihl, length, flagsfrags, protocol, srcIP, dstIP) ==
    << version * 16 + ihl, 0 >> \o Bytes16(length) \o Bytes16(1)
      \o Bytes16(flagsfrags) \o << 64, protocol >> \o Bytes16(0)
      \o srcIP \o dstIP

WireTCP(srcPort, dstPort, seq) ==
    Bytes16(srcPort) \o Bytes16(dstPort) \o Bytes32(seq) \o Bytes32(0)
      \o << 80, 2 >> \o Bytes16(65535) \o Bytes16(0) \o Bytes16(0)

WireUDP(srcPort, dstPort, length) ==
    Bytes16(srcPort) \o Bytes16(dstPort) \o Bytes16(length) \o Bytes16(0)

WireICMPv4(type, code, id, seq) ==
    << type, code >> \o Bytes16(0) \o Bytes16(id) \o Bytes16(seq)

----------------------------------------------------------------------------
(* gopacket.NewPacket(layer.Payload, layers.LayerTypeIPv4, gopacket.Default) *)
(* as layer.go uses it: the eager decoding of the payload into a list of   *)
(* layers, the first of which layer.go takes as the embedded network layer *)
(* and the second as the embedded transport layer.  A decoder that fails   *)
(* ends the list with a DecodeFailure layer.                               *)

DecodeFailure == [type |-> "DecodeFailure"]

ZeroIPv4 ==
    [type |-> "IPv4", Version |-> 0, IHL |-> 0, Length |-> 0, Flags |-> 0,
     FragOffset |-> 0, Protocol |-> 0, SrcIP |-> << >>, DstIP |-> << >>]

\* layers.IPv4.DecodeFromBytes: [err, layer, payload]
DecodeIPv4(data) ==
    IF Len(data) < 20 THEN [err |-> TRUE, layer |-> ZeroIPv4, payload |-> << >>]
    ELSE
      LET flagsfrags == U16(data, 7)
          wireLength == U16(data, 3)
          length     == IF wireLength = 0 THEN Len(data) ELSE wireLength
          ihl        == data[1] % 16
          ip == [type |-> "IPv4", Version |-> data[1] \div 16, IHL |-> ihl,
                 Length |-> length, Flags |-> flagsfrags \div 8192,
                 FragOffset |-> flagsfrags % 8192, Protocol |-> data[10],
                 SrcIP |-> SubSeq(data, 13, 16), DstIP |-> SubSeq(data, 17, 20)]
          avail == IF Len(data) > length THEN length ELSE Len(data)
      IN  IF length < 20 \/ ihl < 5 \/ ihl * 4 > length \/ ihl * 4 > avail
          THEN [err |-> TRUE, layer |-> ip, payload |-> << >>]
          ELSE [err |-> FALSE, layer |-> ip,
                payload |-> SubSeq(data, ihl * 4 + 1, avail)]

\* layers.IPv4.NextLayerType
NextLayerType(ip) ==
    IF ip.Flags % 2 = 1 \/ ip.FragOffset # 0 THEN "Fragment"
    ELSE IF ip.Protocol = IPProtocolICMPv4 THEN "ICMPv4"
    ELSE IF ip.Protocol = IPProtocolTCP THEN "TCP"
    ELSE IF ip.Protocol = IPProtocolUDP THEN "UDP"
    ELSE "Zero"

ZeroTCP == [type |-> "TCP", SrcPort |-> 0, DstPort |-> 0, Seq |-> 0]

\* The layers decoded from the IPv4 payload d (non-empty) as layer type next.
\* tcpKept: whether this gopacket build appends the TCP layer it failed to
\* decode before the DecodeFailure.
DecodeNext(next, d, tcpKept) ==
    IF next = "TCP" THEN
        IF Len(d) < 20
        THEN (IF tcpKept THEN << ZeroTCP >> ELSE << >>) \o << DecodeFailure >>
        ELSE << [type |-> "TCP", SrcPort |-> U16(d, 1), DstPort |-> U16(d, 3),
                 Seq |-> U16(d, 5) * 65536 + U16(d, 7)] >>
    ELSE IF next = "UDP" THEN
        IF Len(d) < 8 THEN << DecodeFailure >>
        ELSE << [type |-> "UDP", SrcPort |-> U16(d, 1), DstPort |-> U16(d, 3),
                 Length |-> U16(d, 5)] >>
    ELSE IF next = "ICMPv4" THEN
        IF Len(d) < 8 THEN << DecodeFailure >>
        ELSE << [type |-> "ICMPv4", TypeCode |-> U16(d, 1), Id |-> U16(d, 5),
                 Seq |-> U16(d, 7)] >>
    ELSE IF next = "Fragment" THEN << [type |-> "Fragment"] >>
    ELSE << DecodeFailure >>

\* ipKept: whether this gopacket build appends the IPv4 layer it failed to
\* decode before the DecodeFailure.
NewPacketLayers(data, ipKept, tcpKept) ==
    LET r == DecodeIPv4(data)
    IN  IF r.err
        THEN (IF ipKept THEN << r.layer >> ELSE << >>) \o << DecodeFailure >>
        ELSE IF Len(r.payload) = 0 THEN << r.layer >>
        ELSE << r.layer >> \o DecodeNext(NextLayerType(r.layer), r.payload, tcpKept)

----------------------------------------------------------------------------
(* ICMPv4 classification *)

\* layers.ICMPv4TypeCode.Type(): the high byte of the uint16 type+code
TypeOf(typeCode) == typeCode \div 256

CreateICMPv4TypeCode(type, code) == type * 256 + code

QueryTypes ==
    { ICMPv4TypeEchoReply, ICMPv4TypeEchoRequest,
      ICMPv4TypeRouterAdvertisement, ICMPv4TypeRouterSolicitation,
      ICMPv4TypeTimestampRequest, ICMPv4TypeTimestampReply,
      ICMPv4TypeInfoRequest, ICMPv4TypeInfoReply,
      ICMPv4TypeAddressMaskRequest, ICMPv4TypeAddressMaskReply }

ErrorTypes ==
    { ICMPv4TypeDestinationUnreachable, ICMPv4TypeSourceQuench,
      ICMPv4TypeRedirect, ICMPv4TypeTimeExceeded, ICMPv4TypeParameterProblem }

\* variant: source-quench is missing from the error case
ParseTypeClassNoSourceQuench(t) ==
    IF t \in QueryTypes THEN "query"
    ELSE IF t \in ErrorTypes \ {ICMPv4TypeSourceQuench} THEN "error"
    ELSE "default"

\* the type switch of parseICMPv4Layer
ParseTypeClass(t) ==
    IF t \in QueryTypes THEN "query"
    ELSE IF t \in ErrorTypes THEN "error"
    ELSE "default"

\* variant: the address-mask types are missing from the query case
QuerySwitchNoAddressMask(t) ==
    IF t \in QueryTypes \ {ICMPv4TypeAddressMaskRequest, ICMPv4TypeAddressMaskReply}
    THEN Ok(TRUE)
    ELSE IF t \in ErrorTypes THEN Ok(FALSE)
    ELSE Panic("UnsupportedICMPType")

\* the type switch shared by isQuery and isEmbQuery
QuerySwitch(t) ==
    IF t \in QueryTypes THEN Ok(TRUE)
    ELSE IF t \in ErrorTypes THEN Ok(FALSE)
    ELSE Panic("UnsupportedICMPType")

----------------------------------------------------------------------------
(* parseICMPv4Layer: [out |-> outcome, ind |-> the indicator or Nil] *)

NewIndicator(layer, ip, tl, tlType) ==
    [layer |-> layer, embIPv4Layer |-> ip, embTransportLayer |-> tl,
     embTransportLayerType |-> tlType]

ParseFail(e) == [out |-> Err(e), ind |-> Nil]

ParseOk(ind) == [out |-> Ok("indicator"), ind |-> ind]

\* variant: the IP version of the embedded header is not checked
ParseEmbeddedAnyVersion(layer, ls) ==
    IF Len(ls) <= 0 THEN ParseFail("MissingNetworkLayer")
    ELSE IF Len(ls) <= 1 THEN ParseFail("MissingTransportLayer")
    ELSE IF ls[1].type # "IPv4" THEN ParseFail("UnsupportedNetworkLayer")
    ELSE ParseOk(NewIndicator(layer, ls[1], ls[2], ls[2].type))

ParseEmbedded(layer, ls) ==
    IF Len(ls) <= 0 THEN ParseFail("MissingNetworkLayer")
    ELSE IF Len(ls) <= 1 THEN ParseFail("MissingTransportLayer")
    ELSE IF ls[1].type # "IPv4" THEN ParseFail("UnsupportedNetworkLayer")
    ELSE IF ls[1].Version # 4 THEN ParseFail("UnsupportedIPVersion")
    ELSE ParseOk(NewIndicator(layer, ls[1], ls[2], ls[2].type))

parseICMPv4Layer(layer, ipKept, tcpKept) ==
    LET c == ParseTypeClass(TypeOf(layer.TypeCode))
    IN  IF c = "query" THEN ParseOk(NewIndicator(layer, Nil, Nil, "Zero"))
        ELSE IF c = "error"
             THEN ParseEmbedded(layer, NewPacketLayers(layer.Payload, ipKept, tcpKept))
        ELSE ParseFail("UnsupportedICMPType")

----------------------------------------------------------------------------
(* Methods of icmpv4Indicator, each giving its outcome *)

newPureICMPv4Layer(ind) ==
    Ok([TypeCode |-> ind.layer.TypeCode, Id |-> ind.layer.Id,
        Seq |-> ind.layer.Seq, Payload |-> << >>])

isQuery(ind) == QuerySwitch(TypeOf(ind.layer.TypeCode))

embSrcIP(ind) ==
    IF ind.embIPv4Layer = Nil THEN Panic("NilDereference")
    ELSE Ok(ind.embIPv4Layer.SrcIP)

embDstIP(ind) ==
    IF ind.embIPv4Layer = Nil THEN Panic("NilDereference")
    ELSE Ok(ind.embIPv4Layer.DstIP)

embTCPLayer(ind) ==
    IF ind.embTransportLayerType = "TCP" THEN Ok(ind.embTransportLayer)
    ELSE Ok(Nil)

embUDPLayer(ind) ==
    IF ind.embTransportLayerType = "UDP" THEN Ok(ind.embTransportLayer)
    ELSE Ok(Nil)

embICMPv4Layer(ind) ==
    IF ind.embTransportLayerType = "ICMPv4" THEN Ok(ind.embTransportLayer)
    ELSE Ok(Nil)

id(ind) == Ok(ind.layer.Id)

embId(ind) ==
    IF ind.embTransportLayerType = "ICMPv4" THEN Ok(embICMPv4Layer(ind).val.Id)
    ELSE Panic("WrongEmbeddedType")

\* variant: the default case returns the zero port
embSrcPortZeroDefault(ind) ==
    IF ind.embTransportLayerType = "TCP" THEN Ok(embTCPLayer(ind).val.SrcPort)
    ELSE IF ind.embTransportLayerType = "UDP" THEN Ok(embUDPLayer(ind).val.SrcPort)
    ELSE Ok(0)

embSrcPort(ind) ==
    IF ind.embTransportLayerType = "TCP" THEN Ok(embTCPLayer(ind).val.SrcPort)
    ELSE IF ind.embTransportLayerType = "UDP" THEN Ok(embUDPLayer(ind).val.SrcPort)
    ELSE Panic("WrongEmbeddedType")

\* variant: the default case returns the zero port
embDstPortZeroDefault(ind) ==
    IF ind.embTransportLayerType = "TCP" THEN Ok(embTCPLayer(ind).val.DstPort)
    ELSE IF ind.embTransportLayerType = "UDP" THEN Ok(embUDPLayer(ind).val.DstPort)
    ELSE Ok(0)

embDstPort(ind) ==
    IF ind.embTransportLayerType = "TCP" THEN Ok(embTCPLayer(ind).val.DstPort)
    ELSE IF ind.embTransportLayerType = "UDP" THEN Ok(embUDPLayer(ind).val.DstPort)
    ELSE Panic("WrongEmbeddedType")

isEmbQuery(ind) ==
    LET l == embICMPv4Layer(ind).val
    IN  IF l = Nil THEN Panic("NilDereference")
        ELSE QuerySwitch(TypeOf(l.TypeCode))

----------------------------------------------------------------------------
(* NAT endpoints: the three implementations of IPEndpoint *)

IPPort(ip, port) == [shape |-> "IPPort", IP |-> ip, Port |-> port]

IPId(ip, i) == [shape |-> "IPId", IP |-> ip, Id |-> i]

IPOnly(ip) == [shape |-> "IP", IP |-> ip]

\* &IPPort{IP: ip, Port: port}: the fields are evaluated in order and the
\* first panic wins
MakeIPPort(ip, port) ==
    IF ip.kind # "ok" THEN ip
    ELSE IF port.kind # "ok" THEN port
    ELSE Ok(IPPort(ip.val, port.val))

MakeIPId(ip, i) ==
    IF ip.kind # "ok" THEN ip
    ELSE IF i.kind # "ok" THEN i
    ELSE Ok(IPId(ip.val, i.val))

MakeIP(ip) == IF ip.kind # "ok" THEN ip ELSE Ok(IPOnly(ip.val))

\* variant: the port is not flipped
natSrcSourcePort(ind) ==
    LET q == isQuery(ind)
        t == ind.embTransportLayerType
    IN  IF q.kind # "ok" THEN q
        ELSE IF q.val THEN Panic("QueryNotSupported")
        ELSE IF t \in {"TCP", "UDP"} THEN MakeIPPort(embDstIP(ind), embSrcPort(ind))
        ELSE IF t = "ICMPv4" THEN
            LET e == isEmbQuery(ind)
            IN  IF e.kind # "ok" THEN e
                ELSE IF e.val THEN MakeIPId(embDstIP(ind), embId(ind))
                ELSE MakeIP(embDstIP(ind))
        ELSE Panic("UnsupportedEmbeddedType")

natSrc(ind) ==
    LET q == isQuery(ind)
        t == ind.embTransportLayerType
    IN  IF q.kind # "ok" THEN q
        ELSE IF q.val THEN Panic("QueryNotSupported")
        ELSE IF t \in {"TCP", "UDP"} THEN MakeIPPort(embDstIP(ind), embDstPort(ind))
        ELSE IF t = "ICMPv4" THEN
            LET e == isEmbQuery(ind)
            IN  IF e.kind # "ok" THEN e
                ELSE IF e.val THEN MakeIPId(embDstIP(ind), embId(ind))
                ELSE MakeIP(embDstIP(ind))
        ELSE Panic("UnsupportedEmbeddedType")

\* variant: the nested-error case keeps the destination address of natSrc
natDstNestedErrorUnflipped(ind) ==
    LET q == isQuery(ind)
        t == ind.embTransportLayerType
    IN  IF q.kind # "ok" THEN q
        ELSE IF q.val THEN Panic("QueryNotSupported")
        ELSE IF t \in {"TCP", "UDP"} THEN MakeIPPort(embSrcIP(ind), embSrcPort(ind))
        ELSE IF t = "ICMPv4" THEN
            LET e == isEmbQuery(ind)
            IN  IF e.kind # "ok" THEN e
                ELSE IF e.val THEN MakeIPId(embSrcIP(ind), embId(ind))
                ELSE MakeIP(embDstIP(ind))
        ELSE Panic("UnsupportedEmbeddedType")

natDst(ind) ==
    LET q == isQuery(ind)
        t == ind.embTransportLayerType
    IN  IF q.kind # "ok" THEN q
        ELSE IF q.val THEN Panic("QueryNotSupported")
        ELSE IF t \in {"TCP", "UDP"} THEN MakeIPPort(embSrcIP(ind), embSrcPort(ind))
        ELSE IF t = "ICMPv4" THEN
            LET e == isEmbQuery(ind)
            IN  IF e.kind # "ok" THEN e
                ELSE IF e.val THEN MakeIPId(embSrcIP(ind), embId(ind))
                ELSE MakeIP(embSrcIP(ind))
        ELSE Panic("UnsupportedEmbeddedType")

----------------------------------------------------------------------------
(* Inputs *)

\* longest embedded packet prefix handed to the parser
MaxPayloadLen == 40

HostA == << 10, 0, 0, 5 >>
HostB == << 8, 8, 8, 8 >>

DF == 16384
MF == 8192

\* original packets whose first bytes an ICMPv4 error embeds
OrigUDP == WireIPv4(4, 5, 32, DF, IPProtocolUDP, HostA, HostB)
             \o WireUDP(5000, 53, 12) \o << 1, 2, 3, 4 >>
OrigTCP == WireIPv4(4, 5, 40, DF, IPProtocolTCP, HostA, HostB)
             \o WireTCP(5000, 53, 1000)
OrigTCPBack == WireIPv4(4, 5, 40, DF, IPProtocolTCP, HostB, HostA)
                 \o WireTCP(443, 1234, 70000)
OrigEcho == WireIPv4(4, 5, 28, 0, IPProtocolICMPv4, HostA, HostB)
              \o WireICMPv4(ICMPv4TypeEchoRequest, 0, 4660, 1)
OrigUnreachable == WireIPv4(4, 5, 28, 0, IPProtocolICMPv4, HostB, HostA)
                     \o WireICMPv4(ICMPv4TypeDestinationUnreachable, 1, 0, 0)
OrigICMPOther == WireIPv4(4, 5, 28, 0, IPProtocolICMPv4, HostA, HostB)
                   \o WireICMPv4(42, 0, 5, 6)
OrigProtoOther == WireIPv4(4, 5, 28, DF, 253, HostA, HostB)
                    \o << 1, 2, 3, 4, 5, 6, 7, 8 >>
OrigFragment == WireIPv4(4, 5, 28, MF, IPProtocolUDP, HostA, HostB)
                  \o WireUDP(5000, 53, 8)
OrigVersion6 == WireIPv4(6, 5, 40, DF, IPProtocolTCP, HostA, HostB)
                  \o WireTCP(5000, 53, 1000)
OrigShortIHL == WireIPv4(4, 4, 28, DF, IPProtocolUDP, HostA, HostB)
                  \o WireUDP(5000, 53, 8)

Originals ==
    { OrigUDP, OrigTCP, OrigTCPBack, OrigEcho, OrigUnreachable, OrigICMPOther,
      OrigProtoOther, OrigFragment, OrigVersion6, OrigShortIHL }

Min(a, b) == IF a < b THEN a ELSE b

Prefix(s, n) == SubSeq(s, 1, n)

Payloads ==
    { Prefix(o, Min(n, Len(o))) : o \in Originals, n \in 0..MaxPayloadLen }

\* largest ICMPv4 code of the outer messages
MaxCode == 1

Codes == 0..MaxCode

OuterIds == {7}

Messages ==
    { [TypeCode |-> CreateICMPv4TypeCode(t, c), Id |-> i, Seq |-> 1, Payload |-> p] :
        t \in 0..MaxUint8, c \in Codes, i \in OuterIds, p \in Payloads }

Mapped(ip4) == << 0, 0, 0, 0, 0, 0, 0, 0, 0, 0, 255, 255 >> \o ip4

Addresses ==
    { << 10, 0, 0, 1 >>, << 93, 184, 216, 34 >>, Mapped(<< 10, 0, 0, 1 >>),
      << 32, 1, 13, 184, 0, 0, 0, 0, 0, 0, 0, 0, 0, 0, 0, 1 >>,
      << 254, 128, 0, 0, 0, 0, 0, 0, 0, 0, 255, 255, 10, 0, 0, 1 >>,
      << >> }

HeaderIds == {1, MaxUint16}

TTLs == {64, MaxUint8}

TransportLayers ==
    { createTransportLayerTCP(1234, 80, 1000, 0), createTCPLayerSYN(1234, 80, 1000),
      createTransportLayerUDP(5000, 53), OtherTransportLayer("SCTP"),
      OtherTransportLayer("UDPLite"), Nil }

----------------------------------------------------------------------------
(* The state machine: one call of the factory, or one parse followed by    *)
(* calls of the indicator's methods                                        *)

Init ==
    /\ args = Nil
    /\ indicator = Nil
    /\ transportLayer = Nil
    /\ op = "none"
    /\ ret = Nil

CreateNetworkLayerIPv4 ==
    /\ op = "none"
    /\ \E srcIP \in Addresses, dstIP \in Addresses, i \in HeaderIds,
          ttl \in TTLs, tl \in TransportLayers :
          /\ args' = [srcIP |-> srcIP, dstIP |-> dstIP, id |-> i, ttl |-> ttl,
                      transportLayer |-> tl]
          /\ ret' = createNetworkLayerIPv4(srcIP, dstIP, i, ttl, tl)
          /\ transportLayer' = TransportAfterIPv4(srcIP, dstIP, i, ttl, tl)
    /\ op' = "createNetworkLayerIPv4"
    /\ UNCHANGED indicator

CreateNetworkLayerIPv6 ==
    /\ op = "none"
    /\ \E srcIP \in Addresses, dstIP \in Addresses, tl \in TransportLayers :
          /\ args' = [srcIP |-> srcIP, dstIP |-> dstIP, transportLayer |-> tl]
          /\ ret' = createNetworkLayerIPv6(srcIP, dstIP, tl)
          /\ transportLayer' = tl
    /\ op' = "createNetworkLayerIPv6"
    /\ UNCHANGED indicator

ParseICMPv4Layer ==
    /\ op = "none"
    /\ \E layer \in Messages, ipKept \in BOOLEAN, tcpKept \in BOOLEAN :
          LET r == parseICMPv4Layer(layer, ipKept, tcpKept)
          IN  /\ args' = [layer |-> layer]
              /\ indicator' = r.ind
              /\ ret' = r.out
    /\ op' = "parseICMPv4Layer"
    /\ UNCHANGED transportLayer

\* a method call on the indicator a parse returned
Call(name, out) ==
    /\ indicator # Nil
    /\ op' = name
    /\ ret' = out
    /\ UNCHANGED << args, indicator, transportLayer >>

NewPureICMPv4Layer == Call("newPureICMPv4Layer", newPureICMPv4Layer(indicator))
IsQuery == Call("isQuery", isQuery(indicator))
EmbSrcIP == Call("embSrcIP", embSrcIP(indicator))
EmbDstIP == Call("embDstIP", embDstIP(indicator))
EmbTCPLayer == Call("embTCPLayer", embTCPLayer(indicator))
EmbUDPLayer == Call("embUDPLayer", embUDPLayer(indicator))
EmbICMPv4Layer == Call("embICMPv4Layer", embICMPv4Layer(indicator))
Id == Call("id", id(indicator))
EmbId == Call("embId", embId(indicator))
EmbSrcPort == Call("embSrcPort", embSrcPort(indicator))
EmbDstPort == Call("embDstPort", embDstPort(indicator))
IsEmbQuery == Call("isEmbQuery", isEmbQuery(indicator))
NatSrc == Call("natSrc", natSrc(indicator))
NatDst == Call("natDst", natDst(indicator))

Next ==
    \/ CreateNetworkLayerIPv4
    \/ CreateNetworkLayerIPv6
    \/ ParseICMPv4Layer
    \/ NewPureICMPv4Layer
    \/ IsQuery
    \/ EmbSrcIP
    \/ EmbDstIP
    \/ EmbTCPLayer
    \/ EmbUDPLayer
    \/ EmbICMPv4Layer
    \/ Id
    \/ EmbId
    \/ EmbSrcPort
    \/ EmbDstPort
    \/ IsEmbQuery
    \/ NatSrc
    \/ NatDst

Spec == Init /\ [][Next]_vars

----------------------------------------------------------------------------
(* Vocabulary of the properties *)

Returns(r, v) == r.kind = "ok" /\ r.val = v

\* the call did not return a value: it returned an error or it panicked
Fails(r) == r.kind \in {"error", "panic"}

FailsWith(r, e) == Fails(r) /\ r.err = e

OuterType == args.layer.TypeCode \div 256

Parsed == indicator # Nil

QueryIndicator ==
    Parsed /\ OuterType \in {0, 8, 9, 10, 13, 14, 15, 16, 17, 18}

ErrorIndicator == Parsed /\ OuterType \in {3, 4, 5, 11, 12}

EmbType == indicator.embTransportLayerType

\* representable in 4-byte form: 4 bytes, or 16 bytes with the IPv4-mapped prefix
FourByteForm(ip) ==
    \/ Len(ip) = 4
    \/ Len(ip) = 16 /\ SubSeq(ip, 1, 12) = << 0, 0, 0, 0, 0, 0, 0, 0, 0, 0, 255, 255 >>

----------------------------------------------------------------------------
\* C1: on an indicator whose outer message is an error type, natSrc returns
\* IPPort{embedded destination address, embedded destination port} for an
\* embedded TCP or UDP layer, IPId{embedded destination address, embedded
\* ICMP id} for an embedded ICMPv4 query, IP{embedded destination address}
\* for an embedded ICMPv4 error, and fails with the unsupported-embedded-type
\* error for any other embedded layer type; time-exceeded around UDP
\* 10.0.0.5:5000 -> 8.8.8.8:53 gives IPPort{8.8.8.8, 53}.
C1_NatSrcTable ==
    (op = "natSrc" /\ ErrorIndicator) =>
        LET ip == indicator.embIPv4Layer.DstIP
            tl == indicator.embTransportLayer
        IN  /\ EmbType \in {"TCP", "UDP"} => Returns(ret, IPPort(ip, tl.DstPort))
            /\ (EmbType = "ICMPv4" /\ tl.TypeCode \div 256 \in {0, 8, 9, 10, 13, 14, 15, 16, 17, 18})
                  => Returns(ret, IPId(ip, tl.Id))
            /\ (EmbType = "ICMPv4" /\ tl.TypeCode \div 256 \in {3, 4, 5, 11, 12})
                  => Returns(ret, IPOnly(ip))
            /\ EmbType \notin {"TCP", "UDP", "ICMPv4"}
                  => FailsWith(ret, "UnsupportedEmbeddedType")
            /\ (OuterType = 11 /\ args.layer.Payload = Prefix(OrigUDP, 28))
                  => Returns(ret, IPPort(<< 8, 8, 8, 8 >>, 53))

C1_Witness ==
    /\ op = "natSrc"
    /\ OuterType = 11
    /\ args.layer.Payload = Prefix(OrigUDP, 28)
    /\ Returns(ret, IPPort(<< 8, 8, 8, 8 >>, 53))

\* C2: natDst mirrors natSrc: it fails exactly when natSrc fails (and in the
\* same way), otherwise it returns the same shape as natSrc, with the
\* embedded source address, the embedded source port in the IPPort case and
\* the same embedded ICMP id in the IPId case.
C2_NatDstMirrorsNatSrc ==
    (op = "natDst") =>
        LET s == natSrc(indicator)
        IN  /\ Fails(ret) <=> Fails(s)
            /\ Fails(ret) => (ret.kind = s.kind /\ ret.err = s.err)
            /\ ret.kind = "ok" =>
                  /\ ret.val.shape = s.val.shape
                  /\ ret.val.IP = indicator.embIPv4Layer.SrcIP
                  /\ s.val.IP = indicator.embIPv4Layer.DstIP
                  /\ ret.val.shape = "IPPort" =>
                        /\ ret.val.Port = indicator.embTransportLayer.SrcPort
                        /\ s.val.Port = indicator.embTransportLayer.DstPort
                  /\ ret.val.shape = "IPId" =>
                        /\ ret.val.Id = s.val.Id
                        /\ ret.val.Id = indicator.embTransportLayer.Id

C2_Witness ==
    /\ op = "natDst"
    /\ ErrorIndicator
    /\ args.layer.Payload = Prefix(OrigTCPBack, 40)
    /\ Returns(ret, IPPort(<< 8, 8, 8, 8 >>, 443))

\* C3 as stated: natSrc and natDst on an indicator of a query-type message
\* return the recoverable error QueryNotSupported to the caller.
C3_QueryReturnsError ==
    (op \in {"natSrc", "natDst"} /\ QueryIndicator) =>
        (ret.kind = "error" /\ ret.err = "QueryNotSupported")

\* C3 as amended: natSrc and natDst on an indicator of a query-type message
\* panic with the query-not-supported error and yield no endpoint value.
C3_QueryPanics ==
    (op \in {"natSrc", "natDst"} /\ QueryIndicator) =>
        (ret.kind = "panic" /\ ret.err = "QueryNotSupported" /\ ret.val = Nil)

C3_Witness ==
    /\ op = "natDst"
    /\ OuterType = 8
    /\ ret.err = "QueryNotSupported"

\* C4: the class of a message depends on its type alone: parse rejects a
\* message with the unsupported-type error, returning no indicator, exactly
\* when the type is outside the ten query types and the five error types,
\* whatever the code, id, seq and payload; isQuery is true on the ten query
\* types and false on the five error types.
C4_ClassifyByTypeAlone ==
    /\ op = "parseICMPv4Layer" =>
          /\ OuterType \notin {0, 8, 9, 10, 13, 14, 15, 16, 17, 18, 3, 4, 5, 11, 12}
                => (ret = Err("UnsupportedICMPType") /\ indicator = Nil)
          /\ OuterType \in {0, 8, 9, 10, 13, 14, 15, 16, 17, 18}
                => (ret.kind = "ok" /\ indicator # Nil)
          /\ OuterType \in {3, 4, 5, 11, 12} => ret.err # "UnsupportedICMPType"
    /\ op = "isQuery" =>
          /\ OuterType \in {0, 8, 9, 10, 13, 14, 15, 16, 17, 18} => Returns(ret, TRUE)
          /\ OuterType \in {3, 4, 5, 11, 12} => Returns(ret, FALSE)

C4_Witness ==
    /\ op = "parseICMPv4Layer"
    /\ OuterType = 19
    /\ args.layer.TypeCode % 256 = 1
    /\ ret = Err("UnsupportedICMPType")

\* C5 as stated: a destination-unreachable message whose payload is a
\* complete IPv4 header followed by only the first 8 bytes of a TCP header
\* parses, and the embedded ports of the indicator are the ports in those 8
\* bytes; with 0 to 7 bytes after the IPv4 header the parse fails with the
\* missing-transport-layer error.
C5_TruncatedTCP ==
    (op = "parseICMPv4Layer" /\ OuterType = 3) =>
        /\ args.layer.Payload = Prefix(OrigTCP, 28) =>
              /\ ret.kind = "ok"
              /\ indicator # Nil
              /\ Returns(embSrcPort(indicator), 5000)
              /\ Returns(embDstPort(indicator), 53)
        /\ \A n \in 20..27 :
              args.layer.Payload = Prefix(OrigTCP, n) => ret = Err("MissingTransportLayer")

\* C6: createNetworkLayerIPv4 fails with the invalid-address error whenever
\* the source or the destination has no 4-byte form, whatever the transport
\* layer, leaving the transport layer unbound; with two 4-byte addresses it
\* fails with the unsupported-layer error for a transport layer that is
\* neither TCP nor UDP, and otherwise returns a header with version 4, header
\* length 5, don't-fragment, the caller's id, ttl and addresses and the
\* protocol of the transport layer (6 for TCP, 17 for UDP), the transport
\* layer being bound to that header for its checksum.
C6_CreateIPv4 ==
    (op = "createNetworkLayerIPv4") =>
        LET tl == args.transportLayer
            addressesOk == FourByteForm(args.srcIP) /\ FourByteForm(args.dstIP)
        IN  /\ ~addressesOk =>
                  (ret = Err("InvalidAddress") /\ transportLayer = tl)
            /\ (addressesOk /\ tl # Nil /\ tl.type \notin {"TCP", "UDP"}) =>
                  (ret = Err("UnsupportedLayer") /\ transportLayer = tl)
            /\ (addressesOk /\ tl # Nil /\ tl.type \in {"TCP", "UDP"}) =>
                  /\ ret.kind = "ok"
                  /\ ret.val.Version = 4
                  /\ ret.val.IHL = 5
                  /\ ret.val.Flags = 2
                  /\ ret.val.Id = args.id
                  /\ ret.val.TTL = args.ttl
                  /\ ret.val.SrcIP = args.srcIP
                  /\ ret.val.DstIP = args.dstIP
                  /\ ret.val.Protocol = (IF tl.type = "TCP" THEN 6 ELSE 17)
                  /\ transportLayer = [tl EXCEPT !.pseudoheader = ret.val]

C6_Witness ==
    /\ op = "createNetworkLayerIPv4"
    /\ args.srcIP = << 10, 0, 0, 1 >>
    /\ ~FourByteForm(args.dstIP)
    /\ args.transportLayer # Nil
    /\ args.transportLayer.type = "SCTP"
    /\ ret = Err("InvalidAddress")

\* C7: createNetworkLayerIPv6 never returns a header: it fails with the
\* invalid-address error if the source or the destination has a 4-byte form
\* and with the unsupported error otherwise, whatever the transport layer.
C7_CreateIPv6AlwaysFails ==
    (op = "createNetworkLayerIPv6") =>
        /\ ret.kind = "error"
        /\ ret.val = Nil
        /\ (FourByteForm(args.srcIP) \/ FourByteForm(args.dstIP))
              => ret.err = "InvalidAddress"
        /\ ~(FourByteForm(args.srcIP) \/ FourByteForm(args.dstIP))
              => ret.err = "Unsupported"

C7_Witness ==
    /\ op = "createNetworkLayerIPv6"
    /\ Len(args.srcIP) = 16
    /\ ~FourByteForm(args.srcIP)
    /\ FourByteForm(args.dstIP)
    /\ ret = Err("InvalidAddress")

\* the accessor op does not apply to the embedded layer type of the indicator
Mismatch ==
    \/ op \in {"embSrcPort", "embDstPort"} /\ EmbType \notin {"TCP", "UDP"}
    \/ op \in {"embId", "isEmbQuery", "embICMPv4Layer"} /\ EmbType # "ICMPv4"
    \/ op = "embTCPLayer" /\ EmbType # "TCP"
    \/ op = "embUDPLayer" /\ EmbType # "UDP"

\* C8 as stated: on an indicator with an embedded packet, every embedded
\* accessor called against an embedded layer type it does not apply to fails
\* instead of returning a zero or nil value.
C8_MismatchFails ==
    (ErrorIndicator /\ Mismatch) => Fails(ret)

\* C8 as amended: on an indicator with an embedded packet, against an
\* embedded layer type they do not apply to, embSrcPort, embDstPort and embId
\* panic with the type-not-supported error, isEmbQuery panics on a nil
\* pointer, and embTCPLayer, embUDPLayer and embICMPv4Layer return nil.
C8_MismatchOutcomes ==
    (ErrorIndicator /\ Mismatch) =>
        /\ op \in {"embSrcPort", "embDstPort", "embId"}
              => ret = Panic("WrongEmbeddedType")
        /\ op = "isEmbQuery" => ret = Panic("NilDereference")
        /\ op \in {"embTCPLayer", "embUDPLayer", "embICMPv4Layer"}
              => Returns(ret, Nil)

C8_Witness ==
    /\ ErrorIndicator
    /\ EmbType = "UDP"
    /\ op = "embTCPLayer"
    /\ Returns(ret, Nil)

EmbeddedAccessors ==
    { "embSrcIP", "embDstIP", "embTCPLayer", "embUDPLayer", "embICMPv4Layer",
      "embId", "embSrcPort", "embDstPort", "isEmbQuery" }

\* C9 as stated: the parse of a query-type message succeeds for any payload
\* and the indicator holds no embedded IPv4 header and no embedded transport
\* layer; every embedded accessor called on it fails, never returning a zero
\* or nil value.
C9_QueryAccessorsFail ==
    QueryIndicator =>
        /\ indicator.embIPv4Layer = Nil
        /\ indicator.embTransportLayer = Nil
        /\ op \in EmbeddedAccessors => Fails(ret)

\* C9 as amended: the parse of a query-type message succeeds for any payload
\* and the indicator holds no embedded IPv4 header and no embedded transport
\* layer; on it embSrcIP, embDstIP and isEmbQuery panic on a nil pointer,
\* embSrcPort, embDstPort and embId panic with the type-not-supported error,
\* and embTCPLayer, embUDPLayer and embICMPv4Layer return nil.
C9_QueryAccessorOutcomes ==
    /\ (op = "parseICMPv4Layer" /\ OuterType \in {0, 8, 9, 10, 13, 14, 15, 16, 17, 18})
          => (ret.kind = "ok" /\ indicator # Nil)
    /\ QueryIndicator =>
          /\ indicator.embIPv4Layer = Nil
          /\ indicator.embTransportLayer = Nil
          /\ op \in {"embSrcIP", "embDstIP", "isEmbQuery"}
                => ret = Panic("NilDereference")
          /\ op \in {"embSrcPort", "embDstPort", "embId"}
                => ret = Panic("WrongEmbeddedType")
          /\ op \in {"embTCPLayer", "embUDPLayer", "embICMPv4Layer"}
                => Returns(ret, Nil)

C9_Witness ==
    /\ QueryIndicator
    /\ args.layer.Payload = Prefix(OrigUDP, 28)
    /\ op = "embUDPLayer"
    /\ Returns(ret, Nil)

\* C10: on every indicator a parse returned, isQuery does not fail; the
\* embedded IPv4 header and the embedded transport layer are both present
\* when the outer type is an error type and both absent when it is a query
\* type; a present embedded IPv4 header has version 4; the recorded embedded
\* layer type is the type of the recorded embedded transport layer; natSrc
\* and natDst on an error indicator fail only with the
\* unsupported-embedded-type or the unsupported-ICMP-type error.
C10_IndicatorInvariant ==
    Parsed =>
        /\ QueryIndicator \/ ErrorIndicator
        /\ op = "isQuery" => Returns(ret, QueryIndicator)
        /\ QueryIndicator =>
              /\ indicator.embIPv4Layer = Nil
              /\ indicator.embTransportLayer = Nil
        /\ ErrorIndicator =>
              /\ indicator.embIPv4Layer # Nil
              /\ indicator.embTransportLayer # Nil
              /\ indicator.embIPv4Layer.Version = 4
              /\ EmbType = indicator.embTransportLayer.type
              /\ (op \in {"natSrc", "natDst"} /\ Fails(ret)) =>
                    ret.err \in {"UnsupportedEmbeddedType", "UnsupportedICMPType"}

C10_Witness ==
    /\ ErrorIndicator
    /\ op = "natDst"
    /\ EmbType = "ICMPv4"
    /\ FailsWith(ret, "UnsupportedICMPType")

====
